---------------------------- MODULE Spec2Model ----------------------------
(***************************************************************************)
(* Model of src/src/protocol.rs: the length-prefixed, multiplexed frame    *)
(* codec (Codec::encode / Codec::decode) and the buffers it works on.      *)
(*                                                                         *)
(* Messages are Vec<u8> values (the type of the deserialize_big test),     *)
(* serialized the way bincode serializes a byte vector: an 8-byte          *)
(* little-endian element count followed by the elements.  Encode is        *)
(* generic in the message type, and a type's Serialize implementation may  *)
(* return an error: a negative element stands for an element that does.    *)
(***************************************************************************)
EXTENDS Integers, Sequences, FiniteSets, TLC

(***************************************************************************)
(* Bounds of the model.                                                    *)
(***************************************************************************)
MaxWrites == 2          \* items written to one stream
MaxMsgLen == 2          \* elements of a message
MaxEmptyChunks == 1     \* empty chunks fed while one frame is split
MaxBindOps == 5         \* calls made on the bound connections, all together

(***************************************************************************)
(* Program constants.                                                      *)
(***************************************************************************)
U64Size == 8            \* mem::size_of::<u64>()
Rounds == 2             \* for _ in 0..2 (test serialize)

Ids == {4, 258}
Pattern == <<7, 9, 11, 13>>
Messages == {SubSeq(Pattern, 1, n) : n \in 0..MaxMsgLen}
PayloadSizes == {8, 9}

\* Messages with an element whose serialization fails.
FailingMessages == {Append(SubSeq(Pattern, 1, n), 0 - 1) : n \in 0..(MaxMsgLen - 1)}

(***************************************************************************)
(* Byte sequences.                                                         *)
(***************************************************************************)
Take(s, n) == SubSeq(s, 1, n)
Drop(s, n) == SubSeq(s, n + 1, Len(s))

RECURSIVE be_bytes(_, _)
be_bytes(n, k) == IF k = 0 THEN <<>> ELSE be_bytes(n \div 256, k - 1) \o <<n % 256>>

RECURSIVE le_bytes(_, _)
le_bytes(n, k) == IF k = 0 THEN <<>> ELSE <<n % 256>> \o le_bytes(n \div 256, k - 1)

RECURSIVE be_value(_)
be_value(s) == IF s = <<>> THEN 0 ELSE be_value(Take(s, Len(s) - 1)) * 256 + s[Len(s)]

RECURSIVE le_value(_)
le_value(s) == IF s = <<>> THEN 0 ELSE s[1] + 256 * le_value(Drop(s, 1))

\* The integer written low byte first.
write_u64_le(buf, n) == buf \o le_bytes(n, U64Size)

\* buf.write_u64::<BigEndian>(n)
write_u64(buf, n) == buf \o be_bytes(n, U64Size)

\* Cursor::new(bytes).read_u64::<BigEndian>()
read_u64(bytes) == be_value(Take(bytes, U64Size))

(***************************************************************************)
(* The serialization collaborator (bincode) on Vec<u8>.                    *)
(***************************************************************************)
\* The size of the elements alone, without the element count before them.
serialized_size_elements(message) == Len(message)

\* An element's Serialize implementation returns an error.
Fails(element) == element < 0

\* The elements that are serialized before the first one that fails.
serialized_prefix(message) ==
  LET bad == {k \in 1..Len(message) : Fails(message[k])}
  IN IF bad = {} THEN message
     ELSE Take(message, (CHOOSE k \in bad : \A j \in bad : k <= j) - 1)

\* bincode::serialized_size counts what is serialized and drops the error.
serialized_size(message) == U64Size + Len(serialized_prefix(message))

\* bincode::serialize_into writes as it goes: what was written before an
\* element failed stays in buf.
serialize_into(buf, message) ==
  [ok |-> serialized_prefix(message) = message,
   buf |-> buf \o le_bytes(Len(message), U64Size) \o serialized_prefix(message)]

DeOk(v) == [ok |-> TRUE, val |-> v]
DeErr == [ok |-> FALSE, val |-> <<>>]

\* An element count with a nonzero byte among its five high bytes is over
\* 2^24 and so over the number of bytes that follow it.
deserialize_from(payload) ==
  IF Len(payload) < U64Size THEN DeErr
  ELSE IF SubSeq(payload, 4, U64Size) # <<0, 0, 0, 0, 0>> THEN DeErr
  ELSE LET n == le_value(Take(payload, U64Size))
       IN IF Len(payload) - U64Size < n THEN DeErr
          ELSE DeOk(SubSeq(payload, U64Size + 1, U64Size + n))

(***************************************************************************)
(* enum CodecState                                                         *)
(***************************************************************************)
CodecState_Id == [tag |-> "Id", id |-> 0, len |-> 0]
CodecState_Len(id) == [tag |-> "Len", id |-> id, len |-> 0]
CodecState_Payload(id, len) == [tag |-> "Payload", id |-> id, len |-> len]

\* Codec::new
new(max) == [max_payload_size |-> max, state |-> CodecState_Id]

(***************************************************************************)
(* Return values of encode and decode.                                     *)
(***************************************************************************)
NoRet == [kind |-> "-", id |-> 0, ok |-> FALSE, val |-> <<>>, size |-> 0, max |-> 0]
RetOk == [NoRet EXCEPT !.kind = "Ok"]
RetNone == [NoRet EXCEPT !.kind = "None"]
RetSome(id, result) ==
  [NoRet EXCEPT !.kind = "Some", !.id = id, !.ok = result.ok, !.val = result.val]

\* io::Error::new(io::ErrorKind::Other, serialize_err)
serialize_err == [NoRet EXCEPT !.kind = "Other"]

\* fn too_big: io::ErrorKind::InvalidData carrying both sizes
too_big(payload_size, max) ==
  [NoRet EXCEPT !.kind = "InvalidData", !.size = payload_size, !.max = max]

(***************************************************************************)
(* Codec::encode                                                           *)
(***************************************************************************)
\* The size check after the length field: a failing encode has written it.
encode_len_first(max, id, message, buf) ==
  LET b1 == write_u64(buf, id)
      payload_size == serialized_size(message)
  IN IF payload_size > max
       THEN [buf |-> write_u64(b1, payload_size), ret |-> too_big(payload_size, max)]
       ELSE LET r == serialize_into(write_u64(b1, payload_size), message)
            IN [buf |-> r.buf, ret |-> IF r.ok THEN RetOk ELSE serialize_err]

\* The size check with >= for >.
encode_ge(max, id, message, buf) ==
  LET b1 == write_u64(buf, id)
      payload_size == serialized_size(message)
  IN IF payload_size >= max
       THEN [buf |-> b1, ret |-> too_big(payload_size, max)]
       ELSE LET r == serialize_into(write_u64(b1, payload_size), message)
            IN [buf |-> r.buf, ret |-> IF r.ok THEN RetOk ELSE serialize_err]

\* The result of serialize_into thrown away.
encode_drops_serialize_err(max, id, message, buf) ==
  LET b1 == write_u64(buf, id)
      payload_size == serialized_size(message)
  IN IF payload_size > max
       THEN [buf |-> b1, ret |-> too_big(payload_size, max)]
       ELSE [buf |-> serialize_into(write_u64(b1, payload_size), message).buf,
             ret |-> RetOk]

encode(max, id, message, buf) ==
  LET b1 == write_u64(buf, id)
      payload_size == serialized_size(message)
  IN IF payload_size > max
       THEN [buf |-> b1, ret |-> too_big(payload_size, max)]
       ELSE LET r == serialize_into(write_u64(b1, payload_size), message)
            IN [buf |-> r.buf, ret |-> IF r.ok THEN RetOk ELSE serialize_err]

(***************************************************************************)
(* Codec::decode.  One operator per phase: the guard arm that returns      *)
(* Ok(None) and the arm that drains the phase's bytes.  done says that the *)
(* arm returned from the loop.                                             *)
(***************************************************************************)
Return(st, b, r) == [state |-> st, buf |-> b, ret |-> r, done |-> TRUE]
Continue(st, b) == [state |-> st, buf |-> b, ret |-> NoRet, done |-> FALSE]

\* The Id guard dropping the bytes that came too early.
decode_Id_drops(st, b) ==
  IF Len(b) < U64Size
    THEN Return(st, <<>>, RetNone)
    ELSE Continue(CodecState_Len(read_u64(b)), Drop(b, U64Size))

decode_Id(st, b) ==
  IF Len(b) < U64Size
    THEN Return(st, b, RetNone)
    ELSE Continue(CodecState_Len(read_u64(b)), Drop(b, U64Size))

\* The length check with >= for >.
decode_Len_ge(max, st, b) ==
  IF Len(b) < U64Size
    THEN Return(st, b, RetNone)
    ELSE LET len == read_u64(b)
         IN IF len >= max
              THEN Return(st, Drop(b, U64Size), too_big(len, max))
              ELSE Continue(CodecState_Payload(st.id, len), Drop(b, U64Size))

\* The length read through the cursor and its bytes left in the buffer.
decode_Len_keeps_bytes(max, st, b) ==
  IF Len(b) < U64Size
    THEN Return(st, b, RetNone)
    ELSE LET len == read_u64(b)
         IN IF len > max
              THEN Return(st, b, too_big(len, max))
              ELSE Continue(CodecState_Payload(st.id, len), b)

\* No check of the length against the maximum.
decode_Len_unchecked(max, st, b) ==
  IF Len(b) < U64Size
    THEN Return(st, b, RetNone)
    ELSE Continue(CodecState_Payload(st.id, read_u64(b)), Drop(b, U64Size))

\* The identifier not carried over into the Payload state.
decode_Len_loses_id(max, st, b) ==
  IF Len(b) < U64Size
    THEN Return(st, b, RetNone)
    ELSE LET len == read_u64(b)
         IN IF len > max
              THEN Return(st, Drop(b, U64Size), too_big(len, max))
              ELSE Continue(CodecState_Payload(0, len), Drop(b, U64Size))

\* The state reset to Id when the length is over the maximum.
decode_Len_resets_on_error(max, st, b) ==
  IF Len(b) < U64Size
    THEN Return(st, b, RetNone)
    ELSE LET len == read_u64(b)
         IN IF len > max
              THEN Return(CodecState_Id, Drop(b, U64Size), too_big(len, max))
              ELSE Continue(CodecState_Payload(st.id, len), Drop(b, U64Size))

decode_Len(max, st, b) ==
  IF Len(b) < U64Size
    THEN Return(st, b, RetNone)
    ELSE LET len == read_u64(b)
         IN IF len > max
              THEN Return(st, Drop(b, U64Size), too_big(len, max))
              ELSE Continue(CodecState_Payload(st.id, len), Drop(b, U64Size))

\* A deserialize failure raised as the call's error, before the state is reset.
decode_Payload_raises(st, b) ==
  IF Len(b) < st.len
    THEN Return(st, b, RetNone)
    ELSE LET result == deserialize_from(Take(b, st.len))
         IN IF result.ok
              THEN Return(CodecState_Id, Drop(b, st.len), RetSome(st.id, result))
              ELSE Return(st, Drop(b, st.len), too_big(st.len, st.len))

\* The whole buffer drained for the payload.
decode_Payload_drains_all(st, b) ==
  IF Len(b) < st.len
    THEN Return(st, b, RetNone)
    ELSE Return(CodecState_Id, <<>>, RetSome(st.id, deserialize_from(Take(b, st.len))))

\* The payload guard draining the part of the payload that is there.
decode_Payload_partial(st, b) ==
  IF Len(b) < st.len
    THEN Return(CodecState_Payload(st.id, st.len - Len(b)), <<>>, RetNone)
    ELSE Return(CodecState_Id, Drop(b, st.len),
                RetSome(st.id, deserialize_from(Take(b, st.len))))

\* The state not reset after a frame.
decode_Payload_no_reset(st, b) ==
  IF Len(b) < st.len
    THEN Return(st, b, RetNone)
    ELSE Return(st, Drop(b, st.len), RetSome(st.id, deserialize_from(Take(b, st.len))))

\* The loop going on after the payload is drained, the frame not returned.
decode_Payload_continues(st, b) ==
  IF Len(b) < st.len
    THEN Return(st, b, RetNone)
    ELSE Continue(CodecState_Id, Drop(b, st.len))

\* The wait for input with <= for <.
decode_Payload_le(st, b) ==
  IF Len(b) <= st.len
    THEN Return(st, b, RetNone)
    ELSE Return(CodecState_Id, Drop(b, st.len),
                RetSome(st.id, deserialize_from(Take(b, st.len))))

decode_Payload(st, b) ==
  IF Len(b) < st.len
    THEN Return(st, b, RetNone)
    ELSE Return(CodecState_Id, Drop(b, st.len),
                RetSome(st.id, deserialize_from(Take(b, st.len))))

\* match self.state
decode_arm(max, st, b) ==
  CASE st.tag = "Id" -> decode_Id(st, b)
    [] st.tag = "Len" -> decode_Len(max, st, b)
    [] st.tag = "Payload" -> decode_Payload(st, b)

\* loop { match self.state { .. } }
RECURSIVE decode(_, _, _)
decode(max, st, b) ==
  LET r == decode_arm(max, st, b)
  IN IF r.done
       THEN [state |-> r.state, buf |-> r.buf, ret |-> r.ret]
       ELSE decode(max, r.state, r.buf)

\* The arms the loop of decode runs, in order; the last one returns.
RECURSIVE decode_path(_, _, _)
decode_path(max, st, b) ==
  LET r == decode_arm(max, st, b)
  IN IF r.done THEN <<r>> ELSE <<r>> \o decode_path(max, r.state, r.buf)

(***************************************************************************)
(* State.  The codec's fields, the two buffers it is called with, the      *)
(* value its last call returned, and the record of the run that the        *)
(* properties are stated over.                                             *)
(***************************************************************************)
VARIABLES
  max_payload_size,  \* Codec.max_payload_size
  state,             \* Codec.state
  vec,               \* the Vec<u8> encode appends to
  buf,               \* the EasyBuf decode drains
  ret,               \* what the last encode or decode call returned
  op,                \* the last operation: "new", "encode", "write", "feed", "decode"
  arg,               \* the (id, message) given to the last encode
  pre,               \* codec state and buffer at entry to the last decode
  stream,            \* every byte written to vec so far
  written,           \* the items written to vec so far, in order
  fed,               \* bytes moved from vec to buf so far
  out,               \* the frames decode returned so far, in order
  failed,            \* a decode call has returned an error
  lens,              \* the length fields of the frames decode returned so far
  pc,                \* position in the round-trip script
  MSG,               \* the script's (id, message)
  iter,              \* rounds of the script completed
  chunks,            \* chunks fed in this round: 0, 1, or 2 for more
  empties,           \* empty chunks fed in this round
  early,             \* a decode call before the last one returned something
  first,             \* the first round's last decode result and chunks
  proto,             \* the Proto the connections are bound with
  conns              \* the framed transport of each connection

codec == <<max_payload_size, state>>
bufs == <<vec, buf>>
hist == <<stream, written, fed, out, failed, lens>>
script == <<pc, MSG, iter, chunks, empties, early, first>>
binding == <<proto, conns>>
vars == <<max_payload_size, state, vec, buf, ret, op, arg, pre,
          stream, written, fed, out, failed, lens,
          pc, MSG, iter, chunks, empties, early, first,
          proto, conns>>

NoArg == [id |-> 0, msg |-> <<>>]
NoPre == [state |-> CodecState_Id, buf |-> <<>>]
NoMsg == [id |-> 0, msg |-> <<>>]

\* An item of the stream: what was written and what a reader is to get.
Item(kind, id, len, ok, val, size) ==
  [kind |-> kind, id |-> id, len |-> len, ok |-> ok, val |-> val, size |-> size]

(***************************************************************************)
(* Hand-built frames (test deserialize_big builds its header byte by byte):*)
(* payloads that are no serialization of a Vec<u8>, and declared lengths   *)
(* over the maximum.                                                       *)
(***************************************************************************)
BadPayloads == {<<>>, <<1, 2, 3>>, le_bytes(2, U64Size), le_bytes(2, U64Size) \o <<7>>}
BigLens(max) == {max + 1, max + 2}

(***************************************************************************)
(* struct Proto and the transports it binds.  A connection is the Framed   *)
(* value bind_transport returns: the codec's fields, the transport's read  *)
(* and write buffers, and the record of the calls made on it.              *)
(***************************************************************************)
Conns == {1, 2}

\* Proto::new
Proto_new(max) == [max_payload_size |-> max]

Unbound ==
  [role |-> "-", max_payload_size |-> 0, state |-> CodecState_Id,
   rd |-> <<>>, wr |-> <<>>, fed |-> 0, rets |-> <<>>, log |-> <<>>]

\* io.framed(codec)
framed(role, c) ==
  [Unbound EXCEPT !.role = role,
                  !.max_payload_size = c.max_payload_size,
                  !.state = c.state]

\* A binding that gives every codec one built-in maximum.
bind_transport_fixed_max(p, role) == framed(role, new(0))

\* Ok(io.framed(Codec::new(self.max_payload_size)))
bind_transport(p, role) == framed(role, new(p.max_payload_size))

\* What the peer of a connection sends, and what is encoded on it.
ConnId(c) == IF c = 1 THEN 4 ELSE 258
ConnIn(c) == IF c = 1 THEN <<>> ELSE <<7>>
ConnOut(c) == IF c = 1 THEN <<7>> ELSE <<>>
Incoming(c) ==
  serialize_into(write_u64(write_u64(<<>>, ConnId(c)), serialized_size(ConnIn(c))),
                 ConnIn(c)).buf

\* The transport reads the next bytes from the peer, 16 at most.
conn_feed(cn, c) ==
  LET left == Len(Incoming(c)) - cn.fed
      n == IF left < 2 * U64Size THEN left ELSE 2 * U64Size
  IN [cn EXCEPT !.rd = @ \o SubSeq(Incoming(c), cn.fed + 1, cn.fed + n),
                !.fed = @ + n,
                !.log = Append(@, "feed")]

\* Framed calls codec.decode on its read buffer.
conn_decode(cn, c) ==
  LET r == decode(cn.max_payload_size, cn.state, cn.rd)
  IN [cn EXCEPT !.state = r.state,
                !.rd = r.buf,
                !.rets = Append(@, r.ret),
                !.log = Append(@, "decode")]

\* Framed calls codec.encode on its write buffer.
conn_encode(cn, c) ==
  LET r == encode(cn.max_payload_size, ConnId(c), ConnOut(c), cn.wr)
  IN [cn EXCEPT !.wr = r.buf,
                !.rets = Append(@, r.ret),
                !.log = Append(@, "encode")]

InitCodec ==
  /\ max_payload_size \in PayloadSizes
  /\ state = new(max_payload_size).state
  /\ vec = <<>>
  /\ buf = <<>>
  /\ ret = NoRet
  /\ op = "new"
  /\ arg = NoArg
  /\ pre = NoPre
  /\ stream = <<>>
  /\ written = <<>>
  /\ fed = 0
  /\ out = <<>>
  /\ failed = FALSE
  /\ lens = <<>>
  /\ proto = Proto_new(max_payload_size)
  /\ conns = [c \in Conns |-> Unbound]

Init ==
  /\ InitCodec
  /\ pc = "run"
  /\ MSG = NoMsg
  /\ iter = 0
  /\ chunks = 0
  /\ empties = 0
  /\ early = FALSE
  /\ first = [ret |-> NoRet, chunks |-> 0]

\* An encode that also puts the codec back into its first phase.
Encode_resets_state(id, message) ==
  /\ Len(written) < MaxWrites
  /\ LET r == encode(max_payload_size, id, message, vec)
         size == Len(r.buf) - Len(vec)
     IN /\ vec' = r.buf
        /\ ret' = r.ret
        /\ stream' = stream \o Drop(r.buf, Len(vec))
        /\ written' = Append(written,
             IF r.ret.kind = "Ok"
               THEN Item("enc", id, size - 2 * U64Size, TRUE, message, size)
               ELSE Item(IF r.ret.kind = "InvalidData" THEN "stray" ELSE "torn",
                         id, 0, FALSE, <<>>, size))
  /\ op' = "encode"
  /\ arg' = [id |-> id, msg |-> message]
  /\ pre' = NoPre
  /\ state' = CodecState_Id
  /\ UNCHANGED <<max_payload_size, buf, fed, out, failed, lens>>

(***************************************************************************)
(* codec.encode((id, message), &mut vec)                                   *)
(***************************************************************************)
Encode(id, message) ==
  /\ Len(written) < MaxWrites
  /\ LET r == encode(max_payload_size, id, message, vec)
         size == Len(r.buf) - Len(vec)
     IN /\ vec' = r.buf
        /\ ret' = r.ret
        /\ stream' = stream \o Drop(r.buf, Len(vec))
        /\ written' = Append(written,
             IF r.ret.kind = "Ok"
               THEN Item("enc", id, size - 2 * U64Size, TRUE, message, size)
               ELSE Item(IF r.ret.kind = "InvalidData" THEN "stray" ELSE "torn",
                         id, 0, FALSE, <<>>, size))
  /\ op' = "encode"
  /\ arg' = [id |-> id, msg |-> message]
  /\ pre' = NoPre
  /\ UNCHANGED <<codec, buf, fed, out, failed, lens>>

(***************************************************************************)
(* A peer that writes a frame by hand: header, declared length, payload.   *)
(***************************************************************************)
PeerWrite(id, len, payload) ==
  /\ Len(written) < MaxWrites
  /\ LET bytes == write_u64(write_u64(<<>>, id), len) \o payload
     IN /\ vec' = vec \o bytes
        /\ stream' = stream \o bytes
        /\ written' = Append(written,
             Item(IF len > max_payload_size THEN "big" ELSE "raw",
                  id, len, FALSE, <<>>, Len(bytes)))
  /\ ret' = NoRet
  /\ op' = "write"
  /\ arg' = NoArg
  /\ pre' = NoPre
  /\ UNCHANGED <<codec, buf, fed, out, failed, lens>>

(***************************************************************************)
(* The transport moves the next n bytes written into the read buffer       *)
(* (buf.get_mut().append(&mut vec) moves them all); n = 0 is an empty      *)
(* chunk.                                                                  *)
(***************************************************************************)
Feed(n) ==
  /\ n \in 0..Len(vec)
  /\ buf' = buf \o Take(vec, n)
  /\ vec' = Drop(vec, n)
  /\ fed' = fed + n
  /\ ret' = NoRet
  /\ op' = "feed"
  /\ arg' = NoArg
  /\ pre' = NoPre
  /\ UNCHANGED <<codec, stream, written, out, failed, lens>>

(***************************************************************************)
(* The u64 fields a decode call would parse from b fit the integers of the *)
(* model (their five high bytes are zero).  Decode is modelled on such     *)
(* input only; a stream that lost its framing can hold larger fields.      *)
(***************************************************************************)
Small(bytes) == Take(bytes, 5) = <<0, 0, 0, 0, 0>>

InRange(st, b) ==
  /\ (st.tag \in {"Id", "Len"} /\ Len(b) >= U64Size) => Small(b)
  /\ (st.tag = "Id" /\ Len(b) >= 2 * U64Size) => Small(Drop(b, U64Size))

\* The length field of the frame a decode call entered with st and b is
\* working on: in the state, or in the buffer after what is left of the
\* identifier.
DeclaredLen(st, b) ==
  CASE st.tag = "Payload" -> st.len
    [] st.tag = "Len" -> be_value(Take(b, U64Size))
    [] st.tag = "Id" -> be_value(SubSeq(b, U64Size + 1, 2 * U64Size))

(***************************************************************************)
(* codec.decode(&mut buf)                                                  *)
(***************************************************************************)
Decode ==
  /\ InRange(state, buf)
  /\ LET r == decode(max_payload_size, state, buf)
     IN /\ state' = r.state
        /\ buf' = r.buf
        /\ ret' = r.ret
        /\ out' = IF r.ret.kind = "Some"
                    THEN Append(out, [id |-> r.ret.id, ok |-> r.ret.ok, val |-> r.ret.val])
                    ELSE out
        /\ failed' = (failed \/ r.ret.kind = "InvalidData")
        /\ lens' = IF r.ret.kind = "Some"
                     THEN Append(lens, DeclaredLen(state, buf))
                     ELSE lens
  /\ op' = "decode"
  /\ arg' = NoArg
  /\ pre' = [state |-> state, buf |-> buf]
  /\ UNCHANGED <<max_payload_size, vec, stream, written, fed>>

\* The chunk sizes of Feed.  Feeding n bytes reaches the state that feeding
\* one byte n times reaches, so every split of the stream is covered.
ChunkSizes == {0, 1, U64Size, Len(vec)}

Next ==
  \/ \E id \in Ids, message \in Messages : Encode(id, message) /\ UNCHANGED <<script, binding>>
  \/ \E n \in ChunkSizes : Feed(n) /\ UNCHANGED <<script, binding>>
  \/ Decode /\ UNCHANGED <<script, binding>>

\* A connection whose peer also writes frames by hand.
PeerMessages == {<<7>>}
PeerIds == {258}

NextPeer ==
  \/ \E id \in Ids, message \in PeerMessages : Encode(id, message) /\ UNCHANGED <<script, binding>>
  \/ \E id \in PeerIds, payload \in BadPayloads :
        PeerWrite(id, Len(payload), payload) /\ UNCHANGED <<script, binding>>
  \/ \E id \in PeerIds, len \in BigLens(max_payload_size) :
        PeerWrite(id, len, <<>>) /\ UNCHANGED <<script, binding>>
  \/ \E n \in ChunkSizes : Feed(n) /\ UNCHANGED <<script, binding>>
  \/ Decode /\ UNCHANGED <<script, binding>>

\* Encode alone, on every message, those that fail to serialize included.
NextEncode ==
  \E id \in Ids, message \in Messages \cup FailingMessages :
     Encode(id, message) /\ UNCHANGED <<script, binding>>

Spec == Init /\ [][Next]_vars

SpecEncode == Init /\ [][NextEncode]_vars

SpecPeer == Init /\ [][NextPeer]_vars


(***************************************************************************)
(* One Proto binding two connections, in either role, and the calls the    *)
(* framed transports make on their codecs, in any interleaving.            *)
(***************************************************************************)
single == <<codec, bufs, ret, op, arg, pre, hist, script>>

RECURSIVE Calls(_)
Calls(cs) ==
  IF cs = {} THEN 0
  ELSE LET c == CHOOSE x \in cs : TRUE
       IN Len(conns[c].log) + Calls(cs \ {c})

\* ServerProto::bind_transport
BindServer(c) ==
  /\ conns[c].role = "-"
  /\ conns' = [conns EXCEPT ![c] = bind_transport(proto, "server")]
  /\ UNCHANGED <<proto, single>>

\* ClientProto::bind_transport
BindClient(c) ==
  /\ conns[c].role = "-"
  /\ conns' = [conns EXCEPT ![c] = bind_transport(proto, "client")]
  /\ UNCHANGED <<proto, single>>

ConnFeed(c) ==
  /\ conns[c].role # "-"
  /\ Calls(Conns) < MaxBindOps
  /\ conns[c].fed < Len(Incoming(c))
  /\ conns' = [conns EXCEPT ![c] = conn_feed(@, c)]
  /\ UNCHANGED <<proto, single>>

ConnDecode(c) ==
  /\ conns[c].role # "-"
  /\ Calls(Conns) < MaxBindOps
  /\ InRange(conns[c].state, conns[c].rd)
  /\ conns' = [conns EXCEPT ![c] = conn_decode(@, c)]
  /\ UNCHANGED <<proto, single>>

ConnEncode(c) ==
  /\ conns[c].role # "-"
  /\ Calls(Conns) < MaxBindOps
  /\ conns' = [conns EXCEPT ![c] = conn_encode(@, c)]
  /\ UNCHANGED <<proto, single>>

NextBind ==
  \/ \E c \in Conns : BindServer(c)
  \/ \E c \in Conns : BindClient(c)
  \/ \E c \in Conns : ConnFeed(c)
  \/ \E c \in Conns : ConnDecode(c)
  \/ \E c \in Conns : ConnEncode(c)

SpecBind == Init /\ [][NextBind]_vars

(***************************************************************************)
(* The script of test serialize, for any (id, message): in each round a    *)
(* new codec encodes MSG into vec, the bytes of vec are appended to buf    *)
(* (all at once as in the test, or in chunks, some of them empty) with a   *)
(* decode call after each chunk, and the result is looked at.              *)
(***************************************************************************)
InitRT ==
  /\ InitCodec
  /\ pc = "new"
  /\ MSG \in [id : Ids, msg : Messages]
  /\ iter = 0
  /\ chunks = 0
  /\ empties = 0
  /\ early = FALSE
  /\ first = [ret |-> NoRet, chunks |-> 0]

\* let mut codec = Codec::new(..)
RTNew ==
  /\ pc = "new"
  /\ iter < Rounds
  /\ max_payload_size' = new(max_payload_size).max_payload_size
  /\ state' = new(max_payload_size).state
  /\ ret' = NoRet
  /\ op' = "new"
  /\ arg' = NoArg
  /\ pre' = NoPre
  /\ pc' = "encode"
  /\ chunks' = 0
  /\ empties' = 0
  /\ early' = FALSE
  /\ UNCHANGED <<bufs, hist, binding, MSG, iter, first>>

\* codec.encode(MSG, &mut vec).unwrap()
RTEncode ==
  /\ pc = "encode"
  /\ Encode(MSG.id, MSG.msg)
  /\ pc' = IF ret'.kind = "Ok" THEN "append" ELSE "panic"
  /\ UNCHANGED <<binding, MSG, iter, chunks, empties, early, first>>

\* buf.get_mut().append(..): the next chunk
RTAppend(n) ==
  /\ pc = "append"
  /\ n = 0 => empties < MaxEmptyChunks
  /\ Feed(n)
  /\ chunks' = IF chunks = 0 THEN 1 ELSE 2
  /\ empties' = IF n = 0 THEN empties + 1 ELSE empties
  /\ early' = (early \/ (op = "decode" /\ ret.kind # "None"))
  /\ pc' = "decode"
  /\ UNCHANGED <<binding, MSG, iter, first>>

\* codec.decode(&mut buf)
RTDecode ==
  /\ pc = "decode"
  /\ Decode
  /\ pc' = "append"
  /\ UNCHANGED <<binding, MSG, iter, chunks, empties, early, first>>

\* the match and the assert that end a round, once every byte is appended
RTCheck ==
  /\ pc = "append"
  /\ vec = <<>>
  /\ first' = IF iter = 0 THEN [ret |-> ret, chunks |-> chunks] ELSE first
  /\ iter' = iter + 1
  /\ pc' = IF iter + 1 < Rounds THEN "new" ELSE "done"
  /\ UNCHANGED <<codec, bufs, ret, op, arg, pre, hist, binding, MSG, chunks, empties, early>>

NextRT ==
  \/ RTNew
  \/ RTEncode
  \/ \E n \in 0..Len(vec) : RTAppend(n)
  \/ RTDecode
  \/ RTCheck

SpecRT == InitRT /\ [][NextRT]_vars


(***************************************************************************)
(* What the record of the run says: where each written item lies in the    *)
(* stream and what a reader of the stream is to get for it.                *)
(***************************************************************************)
RECURSIVE Sizes(_)
Sizes(items) == IF items = <<>> THEN 0 ELSE items[1].size + Sizes(Drop(items, 1))

Start(k) == Sizes(Take(written, k - 1))
End(k) == Sizes(Take(written, k))
ItemBytes(k) == SubSeq(stream, Start(k) + 1, End(k))
Consumed == fed - Len(buf)

IsFrame(k) == written[k].kind \in {"enc", "raw"}
CleanUpTo(k) == \A j \in 1..k : IsFrame(j)
Expected(k) == [id |-> written[k].id, ok |-> written[k].ok, val |-> written[k].val]
FullyFed == Cardinality({k \in 1..Len(written) : End(k) <= fed})
LastItem == written[Len(written)]

\* A round of the script has ended and its result is in ret.
RoundDone == pc \in {"new", "done"} /\ iter >= 1

\* What one decode call of a new codec returns for the frame of this round.
SingleCall == decode(max_payload_size, CodecState_Id, ItemBytes(Len(written)))

(***************************************************************************)
(* C1.  Round trip: for every identifier and every message whose           *)
(* serialized size is at most the maximum, encode into the empty buffer    *)
(* succeeds, and one decode call of a new codec on the bytes it wrote      *)
(* returns (identifier, Ok(message)) and leaves the buffer empty; a second *)
(* round on another new codec gives the same result.                       *)
(***************************************************************************)
C1_RoundTrip ==
  serialized_size(MSG.msg) <= max_payload_size =>
    /\ pc # "panic"
    /\ (RoundDone /\ chunks = 1) =>
         /\ ret = RetSome(MSG.id, DeOk(MSG.msg))
         /\ buf = <<>>
         /\ state = CodecState_Id
         /\ (iter = Rounds /\ first.chunks = 1) => ret = first.ret

C1_Witness ==
  /\ pc = "done"
  /\ iter = Rounds
  /\ chunks = 1
  /\ first.chunks = 1
  /\ ret.kind = "Some"
  /\ MSG.id = 258
  /\ Len(MSG.msg) > 0
  /\ Len(out) = Rounds

(***************************************************************************)
(* C2 as claimed.  However the bytes of an encoded frame are split into    *)
(* chunks, empty ones included, with a decode call after each chunk, every *)
(* call but the last returns "no frame yet" and the last call returns what *)
(* a single decode call on the whole frame returns.                        *)
(***************************************************************************)
C2_LastCallReturnsFrame ==
  RoundDone => (~early /\ ret = SingleCall.ret)

(***************************************************************************)
(* C2 as amended.  Every call made before the last byte of the frame is    *)
(* appended returns "no frame yet"; the call after the chunk that brings   *)
(* the last byte returns what a single decode call on the whole frame      *)
(* returns, and leaves the buffer empty; a call after a later, empty chunk *)
(* returns "no frame yet".                                                 *)
(***************************************************************************)
C2_ChunkedFeed ==
  (op = "decode" /\ pc \in {"append", "new", "done"}) =>
    IF vec = <<>> /\ pre.buf # <<>>
      THEN /\ ret = SingleCall.ret
           /\ ret.kind = "Some"
           /\ ~early
           /\ buf = <<>>
           /\ state = SingleCall.state
      ELSE ret = RetNone

C2_Witness ==
  /\ op = "decode"
  /\ pc = "append"
  /\ vec = <<>>
  /\ pre.state.tag = "Payload"
  /\ Len(pre.buf) = pre.state.len
  /\ chunks = 2
  /\ empties = 1
  /\ ret.kind = "Some"
  /\ ret.ok


(***************************************************************************)
(* Properties of a stream with several items.                              *)
(***************************************************************************)
\* The items that encode wrote in full.
Encoded == SelectSeq(written, LAMBDA it : it.kind = "enc")

\* Every frame returned so far for an item that follows only frames is the
\* frame that was written.
InOrder ==
  \A k \in 1..Len(out) :
    (k <= Len(written) /\ CleanUpTo(k)) => out[k] = Expected(k)

\* The item the next returned frame is to come from.
Cur == Len(out) + 1

\* The reader is in step with the writer: no error so far, only frames
\* before the current item, and the bytes consumed end inside its header.
InStep ==
  /\ ~failed
  /\ Cur <= Len(written)
  /\ CleanUpTo(Cur - 1)
  /\ written[Cur].kind # "stray"

\* The buffer is short of what the phase at entry needs.
Short(st, b) ==
  \/ st.tag \in {"Id", "Len"} /\ Len(b) < U64Size
  \/ st.tag = "Payload" /\ Len(b) < st.len

(***************************************************************************)
(* C3.  A failed encode leaves nothing in the output buffer that corrupts  *)
(* the stream: a reader of the buffer gets every frame that was encoded    *)
(* with success, before or after the failure, with its own identifier and  *)
(* payload, and no error.                                                  *)
(***************************************************************************)
C3_EncodeFailureRecoverable ==
  /\ ~failed
  /\ \A k \in 1..Len(out) :
       /\ k <= Len(Encoded)
       /\ out[k] = [id |-> Encoded[k].id, ok |-> TRUE, val |-> Encoded[k].val]

(***************************************************************************)
(* C4.  A frame whose payload (declared length at most the maximum) is no  *)
(* valid serialization is returned as (identifier, deserialize failure),   *)
(* not as an error of the stream; the call that returns it has consumed    *)
(* exactly 16 + length bytes for it and leaves the codec in Id; the next   *)
(* well-formed frame is returned with its own identifier and payload.      *)
(***************************************************************************)
C4_DeserializeFailureIsolated ==
  \A k \in 1..Len(written) :
    (written[k].kind = "raw" /\ CleanUpTo(k)) =>
      /\ written[k].len <= max_payload_size
      /\ Len(out) < k => ~failed
      /\ (op = "decode" /\ ret.kind = "None" /\ fed >= End(k)) => Len(out) >= k
      /\ Len(out) >= k => out[k] = [id |-> written[k].id, ok |-> FALSE, val |-> <<>>]
      /\ (Len(out) = k /\ op = "decode" /\ ret.kind = "Some") =>
           /\ state = CodecState_Id
           /\ Consumed = End(k)
           /\ End(k) - Start(k) = 2 * U64Size + written[k].len
           /\ pre.state.tag = "Id" =>
                Len(pre.buf) - Len(buf) = 2 * U64Size + written[k].len
      /\ (Len(out) > k /\ k < Len(written) /\ IsFrame(k + 1)) =>
           out[k + 1] = Expected(k + 1)

C4_Witness ==
  /\ Len(written) = 2
  /\ written[1].kind = "raw"
  /\ written[1].len > 0
  /\ written[2].kind = "enc"
  /\ Len(out) = 2
  /\ ~out[1].ok
  /\ out[2].ok
  /\ out[2].id # out[1].id
  /\ out[2].val = <<7>>

(***************************************************************************)
(* C5.  A decode call that parses the length field of a frame fails with   *)
(* the too-big error, and returns no frame, when the declared length is    *)
(* max + 1 or more; with a declared length of max or less it does not      *)
(* fail, and it returns the frame once the payload bytes are there.        *)
(***************************************************************************)
C5_DecodeSizeCap ==
  [][(/\ op' = "decode"
      /\ InStep
      /\ state.tag \in {"Id", "Len"}
      /\ fed >= Start(Cur) + 2 * U64Size)
     => LET len == written[Cur].len
        IN IF len > max_payload_size
             THEN /\ ret' = too_big(len, max_payload_size)
                  /\ out' = out
                  /\ failed'
             ELSE /\ ret'.kind # "InvalidData"
                  /\ ~failed'
                  /\ IF fed >= End(Cur)
                       THEN /\ ret' = RetSome(written[Cur].id,
                                              [ok |-> written[Cur].ok,
                                               val |-> written[Cur].val])
                            /\ out' = Append(out, Expected(Cur))
                       ELSE /\ ret' = RetNone
                            /\ state' = CodecState_Payload(written[Cur].id, len)]_vars

\* A frame of exactly max bytes has been returned and the next item, which
\* declares max + 1, has made decode fail.
C5_Witness ==
  /\ Len(written) = 2
  /\ written[1].len = max_payload_size
  /\ written[2].len = max_payload_size + 1
  /\ Len(out) = 1
  /\ op = "decode"
  /\ ret = too_big(max_payload_size + 1, max_payload_size)

(***************************************************************************)
(* C6.  encode of a message whose serialized size is max + 1 or more fails *)
(* with the too-big error; encode of a message whose serialized size is    *)
(* max or less succeeds and appends a complete frame: 16 bytes of header   *)
(* that hold the identifier and the size, then size bytes of payload.      *)
(***************************************************************************)
C6_EncodeSizeCap ==
  op = "encode" =>
    LET size == serialized_size(arg.msg)
        bytes == ItemBytes(Len(written))
    IN IF size > max_payload_size
         THEN ret = too_big(size, max_payload_size)
         ELSE /\ ret = RetOk
              /\ Len(bytes) = 2 * U64Size + size
              /\ be_value(SubSeq(bytes, 1, U64Size)) = arg.id
              /\ be_value(SubSeq(bytes, U64Size + 1, 2 * U64Size)) = size
              /\ deserialize_from(Drop(bytes, 2 * U64Size)) = DeOk(arg.msg)

\* A message of exactly max bytes was encoded, then one of max + 1 failed.
C6_Witness ==
  /\ op = "encode"
  /\ Len(written) = 2
  /\ written[1].kind = "enc"
  /\ written[1].len = max_payload_size
  /\ serialized_size(arg.msg) = max_payload_size + 1
  /\ ret.kind = "InvalidData"

(***************************************************************************)
(* C7.  When every item of the stream is a frame written by encode, with   *)
(* any identifiers, the frames decode returns, however the stream is cut   *)
(* into chunks, are the (identifier, Ok(message)) pairs that were encoded, *)
(* in the same order: none lost, none twice, none with another's           *)
(* identifier.                                                             *)
(***************************************************************************)
C7_MultiplexedStream ==
  (\A k \in 1..Len(written) : written[k].kind = "enc") =>
    /\ ~failed
    /\ Len(out) <= FullyFed
    /\ \A k \in 1..Len(out) :
         out[k] = [id |-> written[k].id, ok |-> TRUE, val |-> written[k].val]
    /\ (op = "decode" /\ ret.kind = "None") => Len(out) = FullyFed
    /\ (op = "decode" /\ ret.kind = "Some") => ret = RetSome(out[Len(out)].id,
                                                             DeOk(out[Len(out)].val))

C7_Witness ==
  /\ Len(written) = 2
  /\ Len(out) = 2
  /\ out[1].id = 258
  /\ out[2].id = 4
  /\ out[1].val # out[2].val
  /\ out[2].ok
  /\ pre.state.tag = "Payload"

(***************************************************************************)
(* C8.  A decode call on a buffer that holds two or more complete frames   *)
(* returns the first one only and consumes exactly its 16 + L bytes: the   *)
(* bytes of the other frames stay in the buffer as they are; further calls *)
(* return the other frames in stream order.                                *)
(***************************************************************************)
C8_OneFramePerCall ==
  /\ [][(/\ op' = "decode"
         /\ InStep
         /\ state.tag = "Id"
         /\ Consumed = Start(Cur)
         /\ Cur < Len(written)
         /\ IsFrame(Cur)
         /\ IsFrame(Cur + 1)
         /\ fed >= End(Cur + 1))
        => /\ ret' = RetSome(written[Cur].id,
                             [ok |-> written[Cur].ok, val |-> written[Cur].val])
           /\ out' = Append(out, Expected(Cur))
           /\ written[Cur].size = 2 * U64Size + written[Cur].len
           /\ buf' = Drop(buf, 2 * U64Size + written[Cur].len)
           /\ Len(buf') >= written[Cur + 1].size
           /\ state' = CodecState_Id]_vars
  /\ []InOrder

\* Two calls on a buffer that held two whole frames returned both, in order.
C8_Witness ==
  /\ Len(written) = 2
  /\ CleanUpTo(2)
  /\ op = "decode"
  /\ pre.state.tag = "Id"
  /\ pre.buf = ItemBytes(2)
  /\ fed = End(2)
  /\ Len(out) = 2
  /\ out[1] = Expected(1)
  /\ out[2] = Expected(2)
  /\ out[1] # out[2]
  /\ buf = <<>>

(***************************************************************************)
(* C9.  In every codec state, a decode call on a buffer that holds fewer   *)
(* bytes than the phase at entry needs (8, 8, the declared length)         *)
(* consumes nothing, returns "no frame yet" and leaves the codec state     *)
(* with its identifier and length as it was; once the missing bytes are    *)
(* appended a later call returns the frame that was written.               *)
(***************************************************************************)
C9_NoOverConsumption ==
  /\ [][(op' = "decode" /\ Short(state, buf))
        => /\ buf' = buf
           /\ state' = state
           /\ ret' = RetNone
           /\ out' = out
           /\ failed' = failed]_vars
  /\ []InOrder
  /\ []((op = "decode" /\ ret.kind = "None" /\ ~failed /\ CleanUpTo(Len(written)))
          => Len(out) = FullyFed)

\* A call that entered in Payload with the payload complete, after the call
\* before it had waited in Payload, returned the second frame.
C9_Witness ==
  /\ op = "decode"
  /\ pre.state.tag = "Payload"
  /\ pre.state.len > 0
  /\ Len(pre.buf) = pre.state.len
  /\ ret.kind = "Some"
  /\ Len(out) = 2
  /\ out[2] = Expected(2)
  /\ CleanUpTo(2)

(***************************************************************************)
(* C10.  When encode fails with the too-big error, neither the length      *)
(* field nor any payload byte is appended to the buffer: the bytes it has  *)
(* appended are the 8 bytes of the identifier.                             *)
(***************************************************************************)
C10_NoLengthNoPayloadOnFailure ==
  (op = "encode" /\ ret.kind = "InvalidData") =>
    /\ LastItem.size = U64Size
    /\ be_value(ItemBytes(Len(written))) = arg.id
    /\ Len(stream) = End(Len(written))
    /\ vec = Drop(stream, fed)

C10_Witness ==
  /\ op = "encode"
  /\ ret.kind = "InvalidData"
  /\ Len(written) = 2
  /\ written[1].kind = "enc"
  /\ arg.id = 258
  /\ LastItem.size = U64Size


(***************************************************************************)
(* C11 as claimed.  Encode has no error but the size check: every message  *)
(* whose serialized size is at most the maximum is encoded successfully,   *)
(* and an encode call that returns an error has appended the identifier    *)
(* only, never the length field.                                           *)
(***************************************************************************)
C11_OnlySizeExceeded ==
  op = "encode" =>
    /\ serialized_size(arg.msg) <= max_payload_size => ret = RetOk
    /\ ret.kind # "Ok" => LastItem.size = U64Size

(***************************************************************************)
(* C11 as amended.  Encode has two errors.  It returns InvalidData exactly *)
(* when the serialized size is over the maximum, having appended the       *)
(* identifier only.  It returns the serializer's error, as an error of     *)
(* kind Other, exactly when the size is within the maximum and             *)
(* serialization fails, having appended the identifier, the length field   *)
(* and the bytes serialized before the failure.  It succeeds in every      *)
(* other case.                                                             *)
(***************************************************************************)
C11_EncodeErrors ==
  op = "encode" =>
    LET size == serialized_size(arg.msg)
        fails == \E k \in 1..Len(arg.msg) : Fails(arg.msg[k])
        bytes == ItemBytes(Len(written))
    IN /\ ret.kind \in {"Ok", "InvalidData", "Other"}
       /\ ret.kind = "InvalidData" <=> size > max_payload_size
       /\ ret.kind = "Other" <=> (size <= max_payload_size /\ fails)
       /\ ret.kind = "InvalidData" => Len(bytes) = U64Size
       /\ ret.kind = "Other" =>
            /\ Len(bytes) = 2 * U64Size + size
            /\ be_value(SubSeq(bytes, U64Size + 1, 2 * U64Size)) = size
            /\ size < U64Size + Len(arg.msg)
       /\ ret.kind = "Ok" => Len(bytes) = 2 * U64Size + U64Size + Len(arg.msg)

C11_Witness ==
  /\ op = "encode"
  /\ ret.kind = "Other"
  /\ Len(arg.msg) = 2
  /\ LastItem.kind = "torn"
  /\ LastItem.size = 3 * U64Size + 1
  /\ Len(written) = MaxWrites

(***************************************************************************)
(* C12.  Wire format: a successful encode of (id, message) with serialized *)
(* size L appends exactly 16 + L bytes to vec: the identifier in 8 bytes,  *)
(* high byte first, then L in 8 bytes, high byte first, then the L bytes   *)
(* of the serialized message; the bytes vec held before are unchanged and  *)
(* in place.                                                               *)
(***************************************************************************)
BigEndian3(bytes, n) ==
  /\ Len(bytes) = U64Size
  /\ Take(bytes, 5) = <<0, 0, 0, 0, 0>>
  /\ bytes[6] = (n \div 65536) % 256
  /\ bytes[7] = (n \div 256) % 256
  /\ bytes[8] = n % 256

C12_WireFormat ==
  [][(op' = "encode" /\ ret'.kind = "Ok") =>
       LET appended == Drop(vec', Len(vec))
           L == serialized_size(arg'.msg)
       IN /\ Take(vec', Len(vec)) = vec
          /\ Len(appended) = 2 * U64Size + L
          /\ BigEndian3(Take(appended, U64Size), arg'.id)
          /\ BigEndian3(SubSeq(appended, U64Size + 1, 2 * U64Size), L)
          /\ L = U64Size + Len(arg'.msg)
          /\ Drop(appended, 2 * U64Size) =
               <<Len(arg'.msg), 0, 0, 0, 0, 0, 0, 0>> \o arg'.msg
  ]_vars

C12_Witness ==
  /\ op = "encode"
  /\ ret.kind = "Ok"
  /\ arg.id = 258
  /\ Len(arg.msg) = 1
  /\ Len(written) = 2
  /\ Len(vec) > LastItem.size
  /\ fed > 0

(***************************************************************************)
(* C13.  Byte accounting: as long as no decode call has failed, the bytes  *)
(* consumed from the input are 16 + L for each frame returned so far (L    *)
(* its length field) plus 0, 8 or 16 for a codec in Id, Len or Payload;    *)
(* the buffer holds exactly the bytes fed and not yet consumed, in order;  *)
(* and a decode call consumes the bytes of the phases it completes and no  *)
(* others.                                                                 *)
(***************************************************************************)
Offset(st) ==
  CASE st.tag = "Id" -> 0
    [] st.tag = "Len" -> U64Size
    [] st.tag = "Payload" -> 2 * U64Size

RECURSIVE FrameBytes(_)
FrameBytes(ls) ==
  IF ls = <<>> THEN 0 ELSE 2 * U64Size + ls[1] + FrameBytes(Drop(ls, 1))

C13_Accounted ==
  /\ Len(lens) = Len(out)
  /\ \A k \in 1..Len(out) : CleanUpTo(k) => lens[k] = written[k].len
  /\ buf = SubSeq(stream, Consumed + 1, fed)
  /\ ~failed => Consumed = FrameBytes(lens) + Offset(state)

C13_ByteAccounting ==
  /\ []C13_Accounted
  /\ [][/\ op' # "decode" => Consumed' = Consumed
        /\ (op' = "decode" /\ ret'.kind = "None") =>
              Consumed' - Consumed = Offset(state') - Offset(state)
        /\ (op' = "decode" /\ ret'.kind = "Some") =>
              Consumed' - Consumed =
                2 * U64Size + lens'[Len(lens')] - Offset(state)
     ]_vars

C13_Witness ==
  /\ ~failed
  /\ op = "decode"
  /\ state.tag = "Payload"
  /\ Len(out) = 1
  /\ lens = <<9>>
  /\ written[1].kind = "enc"
  /\ Consumed = 2 * U64Size + 9 + 2 * U64Size
  /\ Len(buf) > 0

(***************************************************************************)
(* C14.  Payload length invariant: a codec in Payload { id, len } has      *)
(* len <= max_payload_size; every frame decode returned had a length field *)
(* of at most the maximum; and a frame written with a length field over    *)
(* the maximum is not returned: the call that reads its length fails.      *)
(***************************************************************************)
C14_PayloadLenWithinMax ==
  /\ state.tag = "Payload" => state.len <= max_payload_size
  /\ \A k \in 1..Len(lens) : lens[k] <= max_payload_size
  /\ \A k \in 1..Len(written) :
       (written[k].kind = "big" /\ CleanUpTo(k - 1) /\ ~failed) => Len(out) < k
  /\ (op = "decode" /\ ret.kind = "Some" /\ pre.state.tag = "Payload") =>
       pre.state.len <= max_payload_size

C14_Witness ==
  /\ failed
  /\ Len(written) = 2
  /\ written[2].kind = "big"
  /\ written[2].len = max_payload_size + 1
  /\ Len(out) = 1
  /\ lens[1] = max_payload_size
  /\ state.tag = "Len"

(***************************************************************************)
(* C15.  Phase ordering: a codec is created in Id; only decode changes the *)
(* state, and each arm it runs either leaves the state as it is or takes   *)
(* it from Id to Len { id }, from Len { id } to Payload { id, len } with   *)
(* the same id, or from Payload to Id; the step from Payload to Id is made *)
(* by the arm that drains the payload and returns the frame, whether the   *)
(* payload deserializes or not; and the identifier returned is the one     *)
(* read from the first 8 bytes of the frame.                               *)
(***************************************************************************)
Legal(s, t) ==
  \/ t = s
  \/ s.tag = "Id" /\ t.tag = "Len" /\ t = CodecState_Len(t.id)
  \/ s.tag = "Len" /\ t = CodecState_Payload(s.id, t.len)
  \/ s.tag = "Payload" /\ t = CodecState_Id

\* Where in the stream the frame that the codec is working on begins.
FrameStart == Consumed - Offset(state)
IdField == be_value(SubSeq(stream, FrameStart + 1, FrameStart + U64Size))

C15_Stored ==
  /\ op = "new" => state = CodecState_Id
  /\ (~failed /\ state.tag # "Id") => state.id = IdField

C15_PhaseOrdering ==
  /\ []C15_Stored
  /\ [][/\ op' # "decode" => state' = state
        /\ op' = "decode" =>
             LET path == decode_path(max_payload_size, state, buf)
                 n == Len(path)
                 from(i) == IF i = 1 THEN state ELSE path[i - 1].state
                 before(i) == IF i = 1 THEN buf ELSE path[i - 1].buf
             IN /\ \A i \in 1..n : Legal(from(i), path[i].state)
                /\ path[n].state = state'
                /\ \A i \in 1..n :
                     from(i).tag = "Payload" =>
                       IF Len(before(i)) < from(i).len
                         THEN path[i].state = from(i) /\ ret' = RetNone
                         ELSE /\ i = n
                              /\ path[i].state = CodecState_Id
                              /\ path[i].buf = Drop(before(i), from(i).len)
                              /\ ret'.kind = "Some"
                              /\ ret'.id = from(i).id
                /\ ret'.kind = "Some" =>
                     /\ from(n).tag = "Payload"
                     /\ state' = CodecState_Id
                     /\ ~failed => ret'.id = IdField
     ]_vars

C15_Witness ==
  /\ op = "decode"
  /\ ret.kind = "Some"
  /\ ~ret.ok
  /\ ret.id = 258
  /\ pre.state.tag = "Id"
  /\ state = CodecState_Id
  /\ Len(out) = 2
  /\ out[1].ok
  /\ ~failed

(***************************************************************************)
(* C16.  Encode leaves the decoder untouched: an encode call, successful   *)
(* or failing, changes neither the codec state (phase, stored identifier   *)
(* and length), nor the maximum payload size, nor the read buffer, so the  *)
(* next decode call returns what it would have returned without it; no     *)
(* call changes the maximum payload size; and with encode calls made       *)
(* between the decode calls of a frame received in parts, decode still     *)
(* returns the frames that were written.                                   *)
(***************************************************************************)
C16_EncodeLeavesDecoder ==
  /\ []InOrder
  /\ [][/\ max_payload_size' = max_payload_size
        /\ op' = "encode" =>
             /\ state' = state
             /\ buf' = buf
             /\ out' = out
             /\ InRange(state, buf) =>
                  decode(max_payload_size', state', buf') =
                    decode(max_payload_size, state, buf)
     ]_vars

C16_Witness ==
  /\ op = "encode"
  /\ ret.kind = "InvalidData"
  /\ Len(written) = 2
  /\ written[1].kind = "enc"
  /\ state = CodecState_Payload(written[1].id, written[1].len)
  /\ Len(buf) > 0
  /\ Len(buf) < state.len

(***************************************************************************)
(* C17.  Termination: from every codec state and buffer, a decode call     *)
(* runs at most three arms of its loop (one from Payload, two from Len,    *)
(* three from Id), each changing the phase at most once, and then returns  *)
(* a frame, "no frame yet" or an error; it returns "no frame yet" only     *)
(* when the buffer is short of what the phase it stopped in needs, and     *)
(* leaves that input in the buffer.                                        *)
(***************************************************************************)
C17_DecodeTerminates ==
  InRange(state, buf) =>
    LET path == decode_path(max_payload_size, state, buf)
        n == Len(path)
        from(i) == IF i = 1 THEN state ELSE path[i - 1].state
        moved == {i \in 1..n : path[i].state # from(i)}
    IN /\ n <= 3 - (Offset(state) \div U64Size)
       /\ Cardinality(moved) <= 3
       /\ \A i \in 1..n : path[i].done <=> i = n
       /\ path[n].ret.kind \in {"Some", "None", "InvalidData"}
       /\ path[n].ret = decode(max_payload_size, state, buf).ret
       /\ path[n].ret.kind = "None" => Short(path[n].state, path[n].buf)
       /\ op = "decode" => ret.kind \in {"Some", "None", "InvalidData"}

C17_Witness ==
  /\ op = "decode"
  /\ pre.state.tag = "Id"
  /\ Len(decode_path(max_payload_size, pre.state, pre.buf)) = 3
  /\ ret.kind = "Some"
  /\ Len(buf) = 2 * U64Size
  /\ Len(decode_path(max_payload_size, state, buf)) = 2
  /\ decode(max_payload_size, state, buf).ret.kind = "InvalidData"

(***************************************************************************)
(* C18.  Protocol binding: a codec made by bind_transport, in the server   *)
(* or the client role, starts in Id with the maximum payload size given to *)
(* Proto::new; that value decides both its encode and its decode size      *)
(* check; a call on one connection changes nothing of another connection;  *)
(* and with the calls of two connections interleaved, each connection has  *)
(* the state and the results that its own calls give on a codec used       *)
(* alone.                                                                  *)
(***************************************************************************)
\* The connection that the calls of log give when no other connection runs.
RECURSIVE Alone(_, _, _, _)
Alone(c, role, max, log) ==
  IF log = <<>> THEN framed(role, new(max))
  ELSE LET before == Alone(c, role, max, Take(log, Len(log) - 1))
           call == log[Len(log)]
       IN CASE call = "feed" -> conn_feed(before, c)
            [] call = "decode" -> conn_decode(before, c)
            [] call = "encode" -> conn_encode(before, c)

C18_Bound ==
  \A c \in Conns :
    conns[c].role # "-" =>
      /\ conns[c].role \in {"server", "client"}
      /\ conns[c].max_payload_size = max_payload_size
      /\ proto.max_payload_size = max_payload_size
      /\ conns[c].log = <<>> =>
           (conns[c].state = CodecState_Id /\ conns[c].rd = <<>> /\ conns[c].wr = <<>>)
      /\ conns[c] = Alone(c, conns[c].role, max_payload_size, conns[c].log)
      /\ \A i \in 1..Len(conns[c].rets) :
           LET r == conns[c].rets[i]
           IN /\ r.kind = "InvalidData" =>
                   (r.max = max_payload_size /\ r.size > max_payload_size)
              /\ r.kind = "Some" =>
                   (r.id = ConnId(c) /\ r.ok /\ r.val = ConnIn(c)
                    /\ serialized_size(ConnIn(c)) <= max_payload_size)
              /\ r.kind = "Ok" => serialized_size(ConnOut(c)) <= max_payload_size

C18_ProtocolBinding ==
  /\ []C18_Bound
  /\ [][\A c \in Conns :
          conns'[c] # conns[c] => \A d \in Conns \ {c} : conns'[d] = conns[d]
     ]_vars

C18_Witness ==
  /\ conns[1].role = "server"
  /\ conns[2].role = "client"
  /\ conns[1].log = <<"feed", "decode", "encode">>
  /\ conns[2].log = <<"feed", "decode">>
  /\ conns[1].state.tag = "Payload"
  /\ conns[2].rets[1].kind = "InvalidData"
  /\ conns[1].rets[2].kind = "InvalidData"
  /\ conns[2].state = CodecState_Len(258)

C20_ZeroLengthFrame ==
  /\ [](state.tag = "Payload" => state.len > 0)
  /\ [][(/\ op' = "decode"
         /\ InStep
         /\ written[Cur].kind = "raw"
         /\ written[Cur].len = 0
         /\ fed >= Start(Cur) + 2 * U64Size)
        => /\ state.tag \in {"Id", "Len"}
           /\ ret' = RetSome(written[Cur].id, deserialize_from(<<>>))
           /\ lens' = Append(lens, 0)
           /\ state' = CodecState_Id
           /\ Consumed' = Start(Cur) + 2 * U64Size
           /\ buf' = Drop(buf, 2 * U64Size - Offset(state))
     ]_vars

C20_Witness ==
  /\ op = "decode"
  /\ ret.kind = "Some"
  /\ ret.id = 258
  /\ Len(lens) = 1
  /\ lens[1] = 0
  /\ pre.state.tag = "Len"
  /\ Len(pre.buf) > U64Size
  /\ Len(pre.buf) - Len(buf) = U64Size
  /\ state = CodecState_Id
  /\ written[1].kind = "raw"

=============================================================================
